---- MODULE Spec2Model ----
(***************************************************************************)
(* act_to_hex.py: read an Adobe Color Table file, check its size, cut it   *)
(* into 256 RGB triplets, optionally truncate, print one "#RRGGBB" line    *)
(* per colour.  The script is a straight line of statements; every         *)
(* statement is one action and pc names the source line about to run.      *)
(*                                                                         *)
(* Text is modelled as a sequence of one-character strings, so that        *)
(* int(), the decimal rendering of len(data) and the 02X format are        *)
(* computed digit by digit.  Python's None is the empty tuple and an int   *)
(* value n held in an Optional is <<n>>.  sys.argv[k] is argv[k+1].        *)
(***************************************************************************)
EXTENDS Integers, Sequences, FiniteSets, TLC

\* Number of trailing bytes of the long file variant (768 + 4 = 772).
MaxTrailing == 4

\* The literal 768 of lines 11, 14 and 15: 256 * RGB.
PaletteBytes == 768

\* The step of range(0, 768, 3) and the width of one triplet.
Stride == 3

Min(a, b) == IF a < b THEN a ELSE b
Max(a, b) == IF a > b THEN a ELSE b

None == <<>>
Some(n) == <<n>>

-----------------------------------------------------------------------------
(* The files on disk and the command lines the runs are drawn from.        *)

\* Byte i (0-based) of the ramp palette: colour k is
\* (255 - k, 16 + k, 1 + 3k) mod 256, so colour 0 is (255, 16, 1) and all
\* 256 colours differ.
RampByte(i) ==
    LET k == i \div 3
        c == i % 3
    IN  IF c = 0 THEN (255 - k) % 256
        ELSE IF c = 1 THEN (16 + k) % 256
        ELSE (1 + 3 * k) % 256

\* Red, green, blue, then black: the 768-byte scenario palette.
RgbByte(i) == IF i \in {0, 4, 8} THEN 255 ELSE 0

Ramp(n) == [j \in 1..n |-> RampByte(j - 1)]

Tail1 == [j \in 1..MaxTrailing |-> (37 * j + 5) % 256]
Tail2 == [j \in 1..MaxTrailing |-> (255 - 11 * j) % 256]

Paths == {"empty.act", "short.act", "ramp.act", "ramp_t1.act", "ramp_t2.act",
          "rgb.act", "missing.act"}

FileExists(p) == p # "missing.act"

\* What open(p, "rb").read() returns for an existing file.
FileBytes(p) ==
    CASE p = "empty.act"   -> <<>>
      [] p = "short.act"   -> Ramp(PaletteBytes - 1)
      [] p = "ramp.act"    -> Ramp(PaletteBytes)
      [] p = "ramp_t1.act" -> Ramp(PaletteBytes) \o Tail1
      [] p = "ramp_t2.act" -> Ramp(PaletteBytes) \o Tail2
      [] p = "rgb.act"     -> [j \in 1..PaletteBytes |-> RgbByte(j - 1)]
      [] OTHER             -> <<>>

LimitTexts ==
    { <<"a", "b", "c">>, <<"-">>,
      <<"0">>, <<" ", "3">>, <<"+", "1", "6">>, <<"2", "5", "6">>,
      <<"3", "0", "0">>,
      <<"-", "1">>, <<"-", "2", "5", "5">>, <<"-", "2", "5", "6">>,
      <<"-", "3", "0", "0">> }

Prog == "act_to_hex.py"

Argvs ==
    { <<Prog>> }
      \cup { <<Prog, p>> : p \in Paths }
      \cup { <<Prog, p, t>> : p \in Paths, t \in LimitTexts }

-----------------------------------------------------------------------------
(* Text conversions.                                                       *)

Digits == <<"0", "1", "2", "3", "4", "5", "6", "7", "8", "9">>
HexDigits == Digits \o <<"A", "B", "C", "D", "E", "F">>

IsDigit(c) == \E d \in 1..10 : Digits[d] = c
DigitVal(c) == (CHOOSE d \in 1..10 : Digits[d] = c) - 1

IsSpace(c) == c \in {" ", "\t", "\n"}

RECURSIVE LStrip(_)
LStrip(s) == IF s # <<>> /\ IsSpace(s[1]) THEN LStrip(Tail(s)) ELSE s

RECURSIVE RStrip(_)
RStrip(s) ==
    IF s # <<>> /\ IsSpace(s[Len(s)]) THEN RStrip(SubSeq(s, 1, Len(s) - 1))
    ELSE s

Strip(s) == RStrip(LStrip(s))

HasSign(t) == t # <<>> /\ t[1] \in {"+", "-"}
Unsigned(t) == IF HasSign(t) THEN Tail(t) ELSE t

RECURSIVE DigitsValue(_)
DigitsValue(d) ==
    IF d = <<>> THEN 0
    ELSE 10 * DigitsValue(SubSeq(d, 1, Len(d) - 1)) + DigitVal(d[Len(d)])

\* Variant: a lone sign passes as a number.
IntAcceptsBareSign(s) ==
    LET body == Unsigned(Strip(s))
    IN  \A i \in 1..Len(body) : IsDigit(body[i])

\* int(s) accepts: optional blanks, an optional sign, one or more decimal
\* digits, optional blanks.  (Underscore separators are not in the alphabet
\* of LimitTexts.)
IntAccepts(s) ==
    LET body == Unsigned(Strip(s))
    IN  body # <<>> /\ \A i \in 1..Len(body) : IsDigit(body[i])

IntOf(s) ==
    LET t == Strip(s)
        v == DigitsValue(Unsigned(t))
    IN  IF HasSign(t) /\ t[1] = "-" THEN 0 - v ELSE v

\* str(n) for n >= 0, as the f-string renders len(data).
RECURSIVE Decimal(_)
Decimal(n) ==
    IF n < 10 THEN <<Digits[n + 1]>>
    ELSE Decimal(n \div 10) \o <<Digits[(n % 10) + 1]>>

\* format(n, "X") for n >= 0.
RECURSIVE HexUpper(_)
HexUpper(n) ==
    IF n < 16 THEN <<HexDigits[n + 1]>>
    ELSE HexUpper(n \div 16) \o <<HexDigits[(n % 16) + 1]>>

\* Variant: format(n, "X"), no padding.
HexUnpadded(n) == HexUpper(n)

\* format(n, "02X"): zero-padded on the left to width 2, never cut.
Hex02(n) ==
    LET h == HexUpper(n)
    IN  IF Len(h) < 2 THEN <<"0">> \o h ELSE h

\* f"#{r:02X}{g:02X}{b:02X}"
FormatColor(c) == <<"#">> \o Hex02(c[1]) \o Hex02(c[2]) \o Hex02(c[3])

\* f"File too small ({len(data)} bytes). Not a standard ACT?"
TooSmallMessage(d) ==
    <<"File too small (">> \o Decimal(Len(d)) \o <<" bytes). Not a standard ACT?">>

-----------------------------------------------------------------------------
(* Slicing and the list comprehension.                                     *)

\* Variant: a negative stop selects nothing.
SliceToNoWrap(s, stop) == SubSeq(s, 1, IF stop < 0 THEN 0 ELSE Min(stop, Len(s)))

\* s[:stop] with Python's index normalisation: a negative stop counts from
\* the end, and both ends are clamped to the sequence.
SliceTo(s, stop) ==
    LET n == Len(s)
        e == IF stop < 0 THEN Max(stop + n, 0) ELSE Min(stop, n)
    IN  SubSeq(s, 1, e)

\* Variant: data[-768:], the last 768 bytes.
Suffix(d) == SubSeq(d, Max(Len(d) - PaletteBytes, 0) + 1, Len(d))

\* data[:768]
Prefix(d) == SliceTo(d, PaletteBytes)

\* len(range(0, stop, step)) for stop >= 0, step > 0.
RangeLen(stop, step) == (stop + step - 1) \div step

\* Variant: range(0, 256, 1), windows that overlap.
TripletsOverlapping(r) ==
    [k \in 1..RangeLen(PaletteBytes, Stride) |-> <<r[k], r[k + 1], r[k + 2]>>]

\* [(rgb[i], rgb[i+1], rgb[i+2]) for i in range(0, 768, 3)]
Triplets(r) ==
    [k \in 1..RangeLen(PaletteBytes, Stride) |->
        LET i == Stride * (k - 1)
        IN  <<r[i + 1], r[i + 2], r[i + 3]>>]

\* Whether every rgb[i], rgb[i+1], rgb[i+2] of the comprehension exists; a
\* missing one raises IndexError.
TripletsInRange(r) ==
    \A k \in 1..RangeLen(PaletteBytes, Stride) : Stride * (k - 1) + 3 <= Len(r)

\* Variant: len(data) < 767.
TooSmallOffByOne(d) == Len(d) < PaletteBytes - 1

\* Variant: len(data) <= 768.
TooSmallOrEqual(d) == Len(d) <= PaletteBytes

\* len(data) < 768
TooSmall(d) == Len(d) < PaletteBytes

\* Variant: cols[:limit + 1].
TruncatedInclusive(c, lim) == IF lim # None THEN SliceTo(c, lim[1] + 1) ELSE c

\* Variant: cols[limit:].
TruncatedDrop(c, lim) ==
    IF lim # None
    THEN SubSeq(c, Len(SliceTo(c, lim[1])) + 1, Len(c))
    ELSE c

\* cols[:limit] under "if limit is not None".
Truncated(c, lim) == IF lim # None THEN SliceTo(c, lim[1]) ELSE c

-----------------------------------------------------------------------------
VARIABLES
    argv,       \* sys.argv of the running invocation
    pc,         \* the source line about to run, or "exit"
    path,       \* line 4
    limit,      \* line 5: None or Some(int)
    fh,         \* the file object of line 7: "none", "open" or "closed"
    data,       \* line 7
    rgb,        \* line 14
    cols,       \* lines 15 and 18
    it,         \* how many elements the for loop of line 20 has consumed
    stdout,     \* lines written to standard output
    stderr,     \* lines written to standard error
    exitCode,   \* the process's exit status, meaningful when pc = "exit"
    prev        \* the outcome of the invocation before this one, if any

vars == <<argv, pc, path, limit, fh, data, rgb, cols, it, stdout, stderr,
          exitCode, prev>>

NoRun == [ran |-> FALSE, argv |-> <<>>, stdout |-> <<>>, stderr |-> <<>>,
          exitCode |-> 0]

\* A fresh interpreter about to run line 4 with command line a.
Start(a) ==
    /\ argv = a
    /\ pc = "L4"
    /\ path = ""
    /\ limit = None
    /\ fh = "none"
    /\ data = <<>>
    /\ rgb = <<>>
    /\ cols = <<>>
    /\ it = 0
    /\ stdout = <<>>
    /\ stderr = <<>>
    /\ exitCode = 0

Init == (\E a \in Argvs : Start(a)) /\ prev = NoRun

\* The process ends with status code after writing errLines to stderr; the
\* operating system closes whatever descriptor is still open.
Terminate(code, errLines) ==
    /\ pc' = "exit"
    /\ exitCode' = code
    /\ stderr' = stderr \o errLines
    /\ fh' = IF fh = "open" THEN "closed" ELSE fh

\* An uncaught exception: the traceback goes to stderr, the status is 1.
Uncaught(name) == Terminate(1, << <<"Traceback">>, <<name>> >>)

\* Line 4: path = sys.argv[1]
GetPath ==
    /\ pc = "L4"
    /\ IF Len(argv) > 1
       THEN /\ path' = argv[2]
            /\ pc' = "L5"
            /\ UNCHANGED <<fh, stderr, exitCode>>
       ELSE /\ Uncaught("IndexError")
            /\ UNCHANGED path
    /\ UNCHANGED <<argv, limit, data, rgb, cols, it, stdout, prev>>

\* Line 5: limit = int(sys.argv[2]) if len(sys.argv) > 2 else None
ParseLimit ==
    /\ pc = "L5"
    /\ IF Len(argv) > 2
       THEN IF IntAccepts(argv[3])
            THEN /\ limit' = Some(IntOf(argv[3]))
                 /\ pc' = "L7"
                 /\ UNCHANGED <<fh, stderr, exitCode>>
            ELSE /\ Uncaught("ValueError")
                 /\ UNCHANGED limit
       ELSE /\ limit' = None
            /\ pc' = "L7"
            /\ UNCHANGED <<fh, stderr, exitCode>>
    /\ UNCHANGED <<argv, path, data, rgb, cols, it, stdout, prev>>

\* Line 7: data = open(path, "rb").read()
\* The file object is a temporary: nothing closes it, it is left to the
\* interpreter to reclaim (Finalize) or to the process's end.
ReadFile ==
    /\ pc = "L7"
    /\ IF FileExists(path)
       THEN /\ data' = FileBytes(path)
            /\ fh' = "open"
            /\ pc' = "L11"
            /\ UNCHANGED <<stderr, exitCode>>
       ELSE /\ Uncaught("FileNotFoundError")
            /\ UNCHANGED data
    /\ UNCHANGED <<argv, path, limit, rgb, cols, it, stdout, prev>>

\* The interpreter reclaims the unreferenced file object, which closes it:
\* at once under reference counting, at some later collection otherwise.
Finalize ==
    /\ fh = "open"
    /\ pc # "exit"
    /\ fh' = "closed"
    /\ UNCHANGED <<argv, pc, path, limit, data, rgb, cols, it, stdout, stderr,
                   exitCode, prev>>

\* Lines 11-12: if len(data) < 768: raise SystemExit(message)
CheckSize ==
    /\ pc = "L11"
    /\ IF TooSmall(data)
       THEN Terminate(1, <<TooSmallMessage(data)>>)
       ELSE /\ pc' = "L14"
            /\ UNCHANGED <<fh, stderr, exitCode>>
    /\ UNCHANGED <<argv, path, limit, data, rgb, cols, it, stdout, prev>>

\* Line 14: rgb = data[:768]
TakePrefix ==
    /\ pc = "L14"
    /\ rgb' = Prefix(data)
    /\ pc' = "L15"
    /\ UNCHANGED <<argv, path, limit, fh, data, cols, it, stdout, stderr,
                   exitCode, prev>>

\* Line 15: cols = [... for i in range(0, 768, 3)]
BuildCols ==
    /\ pc = "L15"
    /\ IF TripletsInRange(rgb)
       THEN /\ cols' = Triplets(rgb)
            /\ pc' = "L17"
            /\ UNCHANGED <<fh, stderr, exitCode>>
       ELSE /\ Uncaught("IndexError")
            /\ UNCHANGED cols
    /\ UNCHANGED <<argv, path, limit, data, rgb, it, stdout, prev>>

\* Lines 17-18: if limit is not None: cols = cols[:limit]
Truncate ==
    /\ pc = "L17"
    /\ cols' = Truncated(cols, limit)
    /\ pc' = "L20"
    /\ UNCHANGED <<argv, path, limit, fh, data, rgb, it, stdout, stderr,
                   exitCode, prev>>

\* Lines 20-21, one iteration: print(f"#{r:02X}{g:02X}{b:02X}")
PrintColor ==
    /\ pc = "L20"
    /\ it < Len(cols)
    /\ stdout' = Append(stdout, FormatColor(cols[it + 1]))
    /\ it' = it + 1
    /\ UNCHANGED <<argv, pc, path, limit, fh, data, rgb, cols, stderr,
                   exitCode, prev>>

\* The loop is exhausted and the script falls off its end: status 0.
Finish ==
    /\ pc = "L20"
    /\ it = Len(cols)
    /\ Terminate(0, <<>>)
    /\ UNCHANGED <<argv, path, limit, data, rgb, cols, it, stdout, prev>>

Next ==
    \/ GetPath
    \/ ParseLimit
    \/ ReadFile
    \/ Finalize
    \/ CheckSize
    \/ TakePrefix
    \/ BuildCols
    \/ Truncate
    \/ PrintColor
    \/ Finish

Spec == Init /\ [][Next]_vars

-----------------------------------------------------------------------------
(* Two invocations in a row, for the claims that compare runs.             *)

PathArg(a) == IF Len(a) > 1 THEN <<a[2]>> ELSE <<>>
LimitArg(a) == IF Len(a) > 2 THEN <<a[3]>> ELSE <<>>

\* The script is run a second time, with the same file or the same limit
\* argument; the first run's outcome is kept for comparison.
Reinvoke ==
    /\ pc = "exit"
    /\ ~prev.ran
    /\ prev' = [ran |-> TRUE, argv |-> argv, stdout |-> stdout,
                stderr |-> stderr, exitCode |-> exitCode]
    /\ \E a \in Argvs :
          /\ PathArg(a) = PathArg(argv) \/ LimitArg(a) = LimitArg(argv)
          /\ argv' = a
    /\ pc' = "L4"
    /\ path' = ""
    /\ limit' = None
    /\ fh' = "none"
    /\ data' = <<>>
    /\ rgb' = <<>>
    /\ cols' = <<>>
    /\ it' = 0
    /\ stdout' = <<>>
    /\ stderr' = <<>>
    /\ exitCode' = 0

NextPair == Next \/ Reinvoke

SpecPair == Init /\ [][NextPair]_vars

-----------------------------------------------------------------------------
(* Properties.                                                             *)

\* The bytes of the file named on the command line, as they are on disk.
InputBytes(a) == FileBytes(a[2])

\* The running invocation has read an existing file of n bytes or more.
ReadAtLeast(n) == fh # "none" /\ Len(InputBytes(argv)) >= n

UpperHex == {"0", "1", "2", "3", "4", "5", "6", "7", "8", "9",
             "A", "B", "C", "D", "E", "F"}

HexCharVal(c) ==
    CASE c = "0" -> 0  [] c = "1" -> 1  [] c = "2" -> 2  [] c = "3" -> 3
      [] c = "4" -> 4  [] c = "5" -> 5  [] c = "6" -> 6  [] c = "7" -> 7
      [] c = "8" -> 8  [] c = "9" -> 9  [] c = "A" -> 10 [] c = "B" -> 11
      [] c = "C" -> 12 [] c = "D" -> 13 [] c = "E" -> 14 [] c = "F" -> 15

WellFormedLine(l) ==
    /\ Len(l) = 7
    /\ l[1] = "#"
    /\ \A i \in 2..7 : l[i] \in UpperHex

\* The (r, g, b) a well-formed line spells.
LineColor(l) ==
    <<16 * HexCharVal(l[2]) + HexCharVal(l[3]),
      16 * HexCharVal(l[4]) + HexCharVal(l[5]),
      16 * HexCharVal(l[6]) + HexCharVal(l[7])>>

\* The error line m is the size message and the number in it is n.
MessageCarries(m, n) ==
    /\ Len(m) >= 3
    /\ m[1] = "File too small ("
    /\ m[Len(m)] = " bytes). Not a standard ACT?"
    /\ LET d == SubSeq(m, 2, Len(m) - 1)
       IN  /\ \A i \in 1..Len(d) : IsDigit(d[i])
           /\ DigitsValue(d) = n

\* The previous invocation ran on the file p with no limit argument.
PrevUnlimited(p) == prev.ran /\ prev.argv = <<Prog, p>>

\* C1: with an input of 768 bytes or more and a limit that is absent or
\* non-negative, the finished run has printed exactly min(limit, 256) lines
\* (256 when the limit is absent); no run ever prints more than 256.
C1_OutputCount ==
    /\ Len(stdout) <= 256
    /\ (pc = "exit" /\ ReadAtLeast(768) /\ (limit = None \/ limit[1] >= 0))
         => Len(stdout) = IF limit = None THEN 256 ELSE Min(limit[1], 256)

C1_Witness ==
    /\ pc = "exit"
    /\ limit = Some(300)
    /\ Len(InputBytes(argv)) > 768
    /\ Len(stdout) = 256

\* C2: with an input shorter than 768 bytes, whatever the limit, nothing is
\* ever printed to standard output, and the run ends with a non-zero status
\* and, on the error stream, the size message carrying the input's length.
C2_TooSmallFails ==
    (fh # "none" /\ Len(InputBytes(argv)) < 768)
      => /\ stdout = <<>>
         /\ pc \in {"L11", "exit"}
         /\ pc = "exit"
              => /\ exitCode # 0
                 /\ Len(stderr) = 1
                 /\ MessageCarries(stderr[1], Len(InputBytes(argv)))

C2_Witness ==
    /\ pc = "exit"
    /\ fh # "none"
    /\ Len(InputBytes(argv)) = 767
    /\ limit = Some(16)
    /\ exitCode = 1
    /\ Len(stderr) = 1

\* C3: two runs with the same limit argument on inputs of 768 bytes or more
\* that agree on bytes 0..767 end with the same output and the same status.
C3_TrailingIgnored ==
    (/\ pc = "exit"
     /\ prev.ran
     /\ Len(argv) > 1 /\ Len(prev.argv) > 1
     /\ FileExists(argv[2]) /\ FileExists(prev.argv[2])
     /\ Len(InputBytes(argv)) >= 768 /\ Len(InputBytes(prev.argv)) >= 768
     /\ SubSeq(InputBytes(argv), 1, 768) = SubSeq(InputBytes(prev.argv), 1, 768)
     /\ LimitArg(argv) = LimitArg(prev.argv))
      => /\ stdout = prev.stdout
         /\ exitCode = prev.exitCode

C3_Witness ==
    /\ pc = "exit"
    /\ prev.ran
    /\ prev.argv = <<Prog, "ramp_t1.act">>
    /\ argv = <<Prog, "ramp_t2.act">>
    /\ InputBytes(argv) # InputBytes(prev.argv)
    /\ Len(stdout) = 256
    /\ stdout = prev.stdout

\* C4: with an input of 768 bytes or more, the k-th line printed (k from 0)
\* spells the bytes 3k, 3k+1, 3k+2 of the input as red, green, blue.
C4_IndexOrder ==
    ReadAtLeast(768)
      => LET input == InputBytes(argv)
         IN  \A k \in 1..Len(stdout) :
                /\ WellFormedLine(stdout[k])
                /\ LineColor(stdout[k]) =
                     <<input[3 * (k - 1) + 1],
                       input[3 * (k - 1) + 2],
                       input[3 * (k - 1) + 3]>>

C4_Witness ==
    /\ pc = "exit"
    /\ argv = <<Prog, "ramp.act">>
    /\ Len(stdout) = 256
    /\ LineColor(stdout[1]) = <<255, 16, 1>>
    /\ LineColor(stdout[256]) = <<0, 15, 254>>

\* C5: every printed line is "#" and six uppercase hexadecimal digits, two
\* zero-padded digits per channel of the colour in the order r, g, b:
\* 0 is "00", 16 is "10", 255 is "FF", and (255, 16, 1) is "#FF1001".
C5_LineFormat ==
    \A k \in 1..Len(stdout) :
       LET l == stdout[k]
           c == cols[k]
       IN  /\ WellFormedLine(l)
           /\ LineColor(l) = c
           /\ \A j \in 1..3 :
                 /\ c[j] = 0 => <<l[2 * j], l[2 * j + 1]>> = <<"0", "0">>
                 /\ c[j] = 16 => <<l[2 * j], l[2 * j + 1]>> = <<"1", "0">>
                 /\ c[j] = 255 => <<l[2 * j], l[2 * j + 1]>> = <<"F", "F">>
           /\ c = <<255, 16, 1>> => l = <<"#", "F", "F", "1", "0", "0", "1">>

C5_Witness ==
    /\ pc = "exit"
    /\ Len(stdout) = 256
    /\ cols[1] = <<255, 16, 1>>
    /\ stdout[1] = <<"#", "F", "F", "1", "0", "0", "1">>
    /\ \E k \in 1..Len(stdout) : cols[k][1] = 0

\* C6: with an input of 768 bytes or more and a limit L >= 0, the output is
\* the first min(L, 256) lines of the output of the run on the same input
\* with no limit: none for L = 0, all 256 for L > 256.
C6_TruncationIsPrefix ==
    (/\ pc = "exit"
     /\ ReadAtLeast(768)
     /\ PrevUnlimited(argv[2])
     /\ limit # None /\ limit[1] >= 0)
      => /\ Len(prev.stdout) = 256
         /\ stdout = SubSeq(prev.stdout, 1, Min(limit[1], 256))

C6_Witness ==
    /\ pc = "exit"
    /\ ReadAtLeast(768)
    /\ PrevUnlimited(argv[2])
    /\ limit = Some(16)
    /\ Len(stdout) = 16
    /\ stdout[16] = prev.stdout[16]
    /\ stdout[16] # prev.stdout[17]

\* C7: with an input of 768 bytes or more and any integer limit or none,
\* the run writes nothing to the error stream, can always take its next
\* step, and ends with status 0.
C7_NoOtherFailure ==
    ReadAtLeast(768)
      => /\ stderr = <<>>
         /\ pc = "exit" => exitCode = 0
         /\ pc # "exit" => ENABLED Next

C7_Witness ==
    /\ pc = "exit"
    /\ limit = Some(-300)
    /\ Len(InputBytes(argv)) > 768
    /\ exitCode = 0
    /\ stdout = <<>>

\* C8: the file handle is already closed when the size check is evaluated
\* and when the run has ended, on either path.
C8_HandleReleased ==
    /\ pc = "L11" => fh = "closed"
    /\ (pc = "exit" /\ fh # "none") => fh = "closed"

\* The text is an integer greater than zero.
PositiveIntegerText(t) == IntAccepts(t) /\ IntOf(t) > 0

\* The text holds a character no integer has, or no digit at all.
NonNumericText(t) ==
    \/ \E i \in 1..Len(t) : ~IsDigit(t[i]) /\ t[i] \notin {"+", "-", " "}
    \/ \A i \in 1..Len(t) : ~IsDigit(t[i])

\* The run stopped in argument parsing: the file was never opened, nothing
\* was decoded or printed, and the status is not zero.
FailsAtParsing ==
    /\ pc \in {"L4", "L5", "exit"}
    /\ fh = "none"
    /\ data = <<>> /\ cols = <<>> /\ stdout = <<>>
    /\ pc = "exit" => exitCode # 0

\* C9 as stated: a limit argument that is not a positive integer
\* (non-numeric text, zero, negative) makes the run fail at argument parsing.
C9_RejectsNonPositive ==
    (Len(argv) > 2 /\ ~PositiveIntegerText(argv[3])) => FailsAtParsing

\* C9 amended: a limit argument that is not an integer at all makes the run
\* fail at argument parsing with ValueError, before the file is opened and
\* before anything is decoded or printed; zero and negative integers are
\* parsed as they are written and the run goes on to the file.
C9_RejectsNonNumeric ==
    /\ (Len(argv) > 2 /\ NonNumericText(argv[3]))
         => /\ FailsAtParsing
            /\ pc = "exit" => stderr = << <<"Traceback">>, <<"ValueError">> >>
    /\ (Len(argv) > 2 /\ ~NonNumericText(argv[3]) /\ pc \notin {"L4", "L5"})
         => /\ limit # None
            /\ (PositiveIntegerText(argv[3]) <=> limit[1] > 0)
            /\ stderr # << <<"Traceback">>, <<"ValueError">> >>

C9_Witness ==
    /\ pc = "exit"
    /\ argv = <<Prog, "ramp.act", <<"-">> >>
    /\ exitCode = 1
    /\ fh = "none"

\* C10: with an input of 768 bytes or more and limit -k, the run ends
\* without error and its output is the first 256 - k lines of the output of
\* the run on the same input with no limit when 1 <= k <= 255, and empty
\* when k >= 256.
C10_NegativeLimitDropsTail ==
    (/\ pc = "exit"
     /\ ReadAtLeast(768)
     /\ PrevUnlimited(argv[2])
     /\ limit # None /\ limit[1] < 0)
      => /\ exitCode = 0
         /\ stderr = <<>>
         /\ Len(prev.stdout) = 256
         /\ stdout = IF 0 - limit[1] <= 255
                     THEN SubSeq(prev.stdout, 1, 256 + limit[1])
                     ELSE <<>>

C10_Witness ==
    /\ pc = "exit"
    /\ ReadAtLeast(768)
    /\ PrevUnlimited(argv[2])
    /\ limit = Some(-255)
    /\ stdout = <<prev.stdout[1]>>

====
